---- MODULE Spec2Model ----
(***************************************************************************)
(* Model of the Blender add-on mirai-modeling-tools (__init__.py): the     *)
(* shadow-bake / GLB-export operators, the scene objects they create and   *)
(* remove, the geometry of the shadow plane, the light rig and the pixel   *)
(* post-processing pass.                                                   *)
(*                                                                         *)
(* Numbers.  Lengths are fixed-point integers in thousandths of a Blender  *)
(* unit (One = 1.0); pixel channels are fixed-point in thousandths too     *)
(* (One = channel value 1.0).  Angles are exact rationals [n, d] in        *)
(* degrees.  random.uniform(a, b) is a + (b - a) * u with u = r/RandSteps. *)
(***************************************************************************)
EXTENDS Integers, Sequences, FiniteSets, TLC

\* ------------------------------------------------------------------ bounds
\* largest scene.numLights tried by the operators (the property allows 1..16)
MaxLights == 2
\* largest scene.numLights tried when only the light rig is built
RigMaxLights == 4
\* resolution of the random source: u ranges over r/RandSteps, r \in 0..RandSteps
RandSteps == 1
\* how many operator runs may leave their plane and lights in the scene
MaxRuns == 2
\* pixels of the image baked by the operators (the code bakes 128 x 128)
ImgLen == 1
\* pixels of the images handed to the post-processing pass alone
PixLen == 2
\* channel values tried for a pixel: k/ChanLevels, k \in 0..ChanLevels
ChanLevels == 10
\* how many times the post-processing pass is applied to one image
MaxPasses == 2
\* object dimensions tried for the plane size: k/10 units, k \in 0..MaxDim
MaxDim == 20

\* ------------------------------------------------------- program constants
\* the value 1.0 in thousandths (side_len = 1.0, pixel channel 1.0)
One == 1000
\* create_x_suns_around: angle_increment = 360 / numLights
FullTurn == 360
\* scene.numLights: IntProperty(default=4, min=1, max=16)
NumLightsDefault == 4
NumLightsMin == 1
NumLightsMax == 16
\* setup_render: cycles.samples = 64
BakeSamples == 64

None == 0

\* ------------------------------------------------------------ arithmetic
Max2(a, b) == IF a >= b THEN a ELSE b
Min2(a, b) == IF a <= b THEN a ELSE b
Max3(a, b, c) == Max2(a, Max2(b, c))
Abs(a) == IF a < 0 THEN -a ELSE a
SetMin(S) == CHOOSE x \in S : \A y \in S : x <= y
SetMax(S) == CHOOSE x \in S : \A y \in S : x >= y

RECURSIVE GCD(_, _)
GCD(a, b) == IF b = 0 THEN a ELSE GCD(b, a % b)

\* exact rationals [n |-> numerator, d |-> denominator > 0], kept in lowest terms
Rat(n, d) ==
    LET s == IF d < 0 THEN -1 ELSE 1
        g == GCD(Abs(n), Abs(d))
    IN  [n |-> (s * n) \div g, d |-> (s * d) \div g]
RAdd(p, q) == Rat(p.n * q.d + q.n * p.d, p.d * q.d)
RSub(p, q) == Rat(p.n * q.d - q.n * p.d, p.d * q.d)
RMul(p, q) == Rat(p.n * q.n, p.d * q.d)
RDiv(p, q) == Rat(p.n * q.d, p.d * q.n)
RInt(k) == [n |-> k, d |-> 1]

\* ------------------------------------------------------------- geometry
\* mat @ vec for a 3x3 matrix given by rows, plus the translation column
MatVec(m, t, v) ==
    << m[1][1] * v[1] + m[1][2] * v[2] + m[1][3] * v[3] + t[1],
       m[2][1] * v[1] + m[2][2] * v[2] + m[2][3] * v[3] + t[2],
       m[3][1] * v[1] + m[3][2] * v[2] + m[3][3] * v[3] + t[3] >>

\* obj.bound_box: the 8 corners of the local bounding box
bound_box(g) ==
    { << x, y, z >> : x \in {g.lo[1], g.hi[1]}, y \in {g.lo[2], g.hi[2]},
                      z \in {g.lo[3], g.hi[3]} }

world_bbox_corners(g) == { MatVec(g.matrix, g.translation, c) : c \in bound_box(g) }

bbox_min_max_z_swapped(g) ==
    LET zs == { c[3] : c \in world_bbox_corners(g) }
    IN  << SetMax(zs), SetMin(zs) >>
bbox_min_max_z(g) ==
    LET zs == { c[3] : c \in world_bbox_corners(g) }
    IN  << SetMin(zs), SetMax(zs) >>

\* max(dims.x, dims.y, dims.z) * 1.2
compute_radius_from_dimensions(g) ==
    (Max3(g.dimensions[1], g.dimensions[2], g.dimensions[3]) * 12) \div 10

\* make_shadow_plane / bake operator: side_len = radius * 4.0, 1.0 when <= 0
plane_side_len(g) ==
    LET side_len == compute_radius_from_dimensions(g) * 4
    IN  IF side_len <= 0 THEN One ELSE side_len

\* create_plane_at: a size-1.0 plane primitive scaled by side_length / 2 in X
\* and Y, placed at the object's world X/Y and at the lowest world Z of its
\* bounding box; then transform_apply(scale=True) puts the scale into the
\* mesh data (extent = size * scale) and leaves plane.scale = (1, 1, 1)
create_plane_at(g, side_length) ==
    LET scale_factor == side_length \div 2
        bbox_min_z == bbox_min_max_z(g)[1]
        world_center == g.translation
    IN  [ primitive_size |-> One,
          side_length |-> side_length,
          scale |-> << One, One, One >>,
          extent |-> << (One * scale_factor) \div One, (One * scale_factor) \div One >>,
          location |-> << world_center[1], world_center[2], bbox_min_z >> ]

\* the plane when transform_apply returned CANCELLED: the scale assigned at
\* `plane.scale = (scale_factor, scale_factor, 1.0)` stays on the object
scale_not_applied(p) ==
    [ p EXCEPT !.scale = << p.side_length \div 2, p.side_length \div 2, One >>,
               !.extent = << p.primitive_size, p.primitive_size >> ]

\* ------------------------------------------------------ pivot geometry
\* world matrices of the example objects: upright, mirrored in Z, turned about X
Identity == << << 1, 0, 0 >>, << 0, 1, 0 >>, << 0, 0, 1 >> >>
FlipZ == << << 1, 0, 0 >>, << 0, 1, 0 >>, << 0, 0, -1 >> >>
RotX90 == << << 1, 0, 0 >>, << 0, 0, -1 >>, << 0, 1, 0 >> >>
RECURSIVE VecSum(_)
VecSum(S) ==
    IF S = {} THEN << 0, 0, 0 >>
    ELSE LET v == CHOOSE x \in S : TRUE
             r == VecSum(S \ {v})
         IN  << v[1] + r[1], v[2] + r[2], v[3] + r[3] >>

\* fix_origin: the centre of the bottom face of the local bounding box
center_local(g) ==
    LET bb_local == bound_box(g)
        min_z == SetMin({ v[3] : v \in bb_local })
        bottom_verts == { v \in bb_local : v[3] = min_z }
        total == VecSum(bottom_verts)
        n == Cardinality(bottom_verts)
    IN  << total[1] \div n, total[2] \div n, total[3] \div n >>

\* center_world = obj.matrix_world @ center_local
center_world(g) == MatVec(g.matrix, g.translation, center_local(g))

\* the inverse of a rotation / mirror matrix
Transpose(m) == [ i \in 1..3 |-> [ j \in 1..3 |-> m[j][i] ] ]

\* bpy.ops.object.origin_set(type='ORIGIN_CURSOR'): the origin moves to the
\* cursor c, the mesh data moves the other way, the object stays where it is
origin_set(g, c) ==
    LET d == MatVec(Transpose(g.matrix), << 0, 0, 0 >>,
                    << c[1] - g.translation[1], c[2] - g.translation[2],
                       c[3] - g.translation[3] >>)
    IN  [ g EXCEPT !.lo = << g.lo[1] - d[1], g.lo[2] - d[2], g.lo[3] - d[3] >>,
                   !.hi = << g.hi[1] - d[1], g.hi[2] - d[2], g.hi[3] - d[3] >>,
                   !.translation = c,
                   !.location = c ]

\* obj.location = (0.0, 0.0, 0.0)
moved_to_zero(g) == [ g EXCEPT !.translation = << 0, 0, 0 >>, !.location = << 0, 0, 0 >> ]

\* obj.scale of the example objects: the mirrored one has scale z = -1
scale_of(m) == IF m = FlipZ THEN << 1, 1, -1 >> ELSE << 1, 1, 1 >>

\* bpy.ops.object.transform_apply(location=False, rotation=False, scale=True):
\* the scale goes into the mesh data and becomes (1, 1, 1)
transform_apply(g) ==
    LET sc == scale_of(g.matrix)
        a == [ i \in 1..3 |-> sc[i] * g.lo[i] ]
        b == [ i \in 1..3 |-> sc[i] * g.hi[i] ]
    IN  [ g EXCEPT !.matrix = [ i \in 1..3 |-> [ j \in 1..3 |-> g.matrix[i][j] * sc[j] ] ],
                   !.lo = [ i \in 1..3 |-> Min2(a[i], b[i]) ],
                   !.hi = [ i \in 1..3 |-> Max2(a[i], b[i]) ] ]

\* ---------------------------------------------------------- pixel pass
\* one iteration of the loop over the flat pixel list: RGB := 0,
\* A := 1 - max(r, g, b); the input alpha is read and dropped
BinarizeAlphaOnly(p) == << p[1], p[2], p[3], One - Max3(p[1], p[2], p[3]) >>
BinarizeMin(p) == << 0, 0, 0, One - Min2(p[1], Min2(p[2], p[3])) >>
BinarizePixel(p) == << 0, 0, 0, One - Max3(p[1], p[2], p[3]) >>

\* the whole loop: every pixel, in place, the pixel count unchanged
Binarize(image) == [ i \in 1..Len(image) |-> BinarizePixel(image[i]) ]

White == << One, One, One, One >>
Black == << 0, 0, 0, One >>

\* create_image: width * height pixels, all opaque white
create_image(n) == [ i \in 1..n |-> White ]


\* -------------------------------------------------------------- light rig
\* random.uniform(a, b) = a + (b - a) * random(), random() = r / RandSteps
uniform(a, b, r) == RAdd(a, RMul(RSub(b, a), Rat(r, RandSteps)))

\* angle_random_offset: 0 when scene.simetric, else uniform(-inc/4, +inc/4)
angle_random_offset_half(angle_increment, sym, r) ==
    IF sym THEN RInt(0)
    ELSE uniform(RDiv(RSub(RInt(0), angle_increment), RInt(2)),
                 RDiv(angle_increment, RInt(2)), r)
angle_random_offset(angle_increment, sym, r) ==
    IF sym THEN RInt(0)
    ELSE uniform(RDiv(RSub(RInt(0), angle_increment), RInt(4)),
                 RDiv(angle_increment, RInt(4)), r)

\* create_x_suns_around(obj, distance): the lights of one rig, in creation
\* order.  Light i (0-based) stands at obj.location.xy + dist * (cos theta,
\* sin theta) with theta = i * angle_increment + angle_random_offset degrees,
\* so it is recorded by its polar coordinates about obj.location; z is
\* max_z + 5.0.  rs[i+1] is the draw of the random source for light i.
create_x_suns_around(g, distance, N, sym, rs) ==
    LET obj_distance == IF g.dimensions[1] > g.dimensions[2]
                        THEN g.dimensions[1] ELSE g.dimensions[2]
        angle_increment == Rat(FullTurn, N)
        max_z == bbox_min_max_z(g)[2]
    IN  [ k \in 1..N |->
            [ index |-> k - 1,
              theta |-> RAdd(RMul(RInt(k - 1), angle_increment),
                             angle_random_offset(angle_increment, sym, rs[k])),
              center |-> << g.location[1], g.location[2] >>,
              dist |-> obj_distance + distance,
              z |-> max_z + 5 * One ] ]

\* the draws the random source can make for a rig of N lights
RandomDraws(N, sym) ==
    IF sym THEN { [ k \in 1..N |-> 0 ] } ELSE [ 1..N -> 0..RandSteps ]

\* ------------------------------------------------------------ the scene
\* The example scene: three meshes and one empty, ids 1..4.
\*   1  upright box, 0.73 high, at (1, 2, 0)
\*   2  the same box mirrored in Z (scale z = -1), origin at z = 0.5
\*   3  a 2.0 long box rotated 90 degrees about X, origin at z = 1.0
\*   4  an EMPTY (no geometry)
UserIds == 1..4

Geo(lo, hi, m, t) ==
    [ lo |-> lo, hi |-> hi, matrix |-> m, translation |-> t, location |-> t,
      dimensions |-> << hi[1] - lo[1], hi[2] - lo[2], hi[3] - lo[3] >> ]

UserGeo ==
    [ u \in UserIds |->
        CASE u = 1 -> Geo(<< -500, -500, 0 >>, << 500, 500, 730 >>, Identity,
                          << 1000, 2000, 0 >>)
          [] u = 2 -> Geo(<< -500, -500, 0 >>, << 500, 500, 730 >>, FlipZ,
                          << -1000, 0, 500 >>)
          [] u = 3 -> Geo(<< -200, -300, 0 >>, << 200, 300, 2000 >>, RotX90,
                          << 0, 0, 1000 >>)
          [] OTHER -> Geo(<< 0, 0, 0 >>, << 0, 0, 0 >>, Identity,
                          << 3000, 0, 0 >>) ]

UserType(u) == IF u = 4 THEN "EMPTY" ELSE "MESH"

\* MEASUREMENTS: height range of each preset, in thousandths
MEASUREMENTS ==
    [ k \in {"Table", "Chair", "Hanger", "High table", "FREE (Only for exceptions)"} |->
        CASE k = "Table" -> << 710, 760 >>
          [] k = "Chair" -> << 450, 500 >>
          [] k = "Hanger" -> << 1500, 1800 >>
          [] k = "High table" -> << 1000, 1070 >>
          [] OTHER -> << 0, 9999 * One >> ]

\* bpy.context.collection: the collection new objects are linked to
ContextCollection == "Collection"
\* the two image files setup_ref_images looks for
RefFiles == {"Image20251003133529.png", "arrow.png"}

\* the scene holds at most the user's objects, MaxRuns rigs with planes and
\* the reference images; the three kinds of object have their own ids
MaxGenerated == Max2(MaxRuns * (1 + MaxLights), RigMaxLights)
MaxObjs == Cardinality(UserIds) + MaxGenerated + Cardinality(RefFiles)
GenSlots == (Cardinality(UserIds) + 1)..(Cardinality(UserIds) + MaxGenerated)
RefSlots == (Cardinality(UserIds) + MaxGenerated + 1)..MaxObjs

NoObj == [ type |-> "NONE", role |-> "free", hide_render |-> FALSE,
           users_collection |-> {} ]
\* a user's object, linked to the collection c
UserObj(u, c) == [ type |-> UserType(u), role |-> "user", hide_render |-> FALSE,
                   users_collection |-> {c} ]
\* bpy.data.objects.new("Shadow_Sun_<i>", light_data), linked to
\* bpy.context.collection
LightObj == [ type |-> "LIGHT", role |-> "Shadow_Sun", hide_render |-> FALSE,
              users_collection |-> {ContextCollection} ]
\* primitive_plane_add (which links the plane to the context collection),
\* renamed "<obj.name>_shadow_plane"
PlaneObj == [ type |-> "MESH", role |-> "shadow_plane", hide_render |-> FALSE,
              users_collection |-> {ContextCollection} ]
\* empty_image_add (linked to the context collection), then
\* ref_col.objects.link(img)
RefImageObj == [ type |-> "EMPTY", role |-> "ref_image", hide_render |-> FALSE,
                 users_collection |-> {ContextCollection, "References"} ]

\* collection.objects / collection.all_objects, read from the scene sc when
\* it is asked for (the example scene has no nested collections)
all_objects(sc, c) == { k \in DOMAIN sc : c \in sc[k].users_collection }

\* no geometry: a free id, a light, an empty
NoGeo == Geo(<< 0, 0, 0 >>, << 0, 0, 0 >>, Identity, << 0, 0, 0 >>)
SceneGeo == [ k \in 1..MaxObjs |-> IF k \in UserIds THEN UserGeo[k] ELSE NoGeo ]

\* the geometry of a shadow plane: a flat square about plane.location whose
\* side is extent * scale.  The box is kept in world scale, so dimensions,
\* location and world corners are those of the plane whether the scale is on
\* the object or in its mesh data
PlaneGeo(p) ==
    LET w == [ i \in 1..2 |-> (p.extent[i] * p.scale[i]) \div One ]
    IN  Geo(<< -(w[1] \div 2), -(w[2] \div 2), 0 >>,
            << w[1] - (w[1] \div 2), w[2] - (w[2] \div 2), 0 >>,
            Identity, p.location)

NoPlane == [ id |-> None, primitive_size |-> 0, side_length |-> 0,
             scale |-> << 0, 0, 0 >>, extent |-> << 0, 0 >>,
             location |-> << 0, 0, 0 >> ]
PlaneRec(id, p) == [ id |-> id, primitive_size |-> p.primitive_size,
                     side_length |-> p.side_length, scale |-> p.scale,
                     extent |-> p.extent, location |-> p.location ]

\* scene.Collection: None, or a pointer to the collection of that name
NoCollection == [ set |-> FALSE, name |-> "" ]
CollectionNamed(n) == [ set |-> TRUE, name |-> n ]

DefaultRender == [ engine |-> "BLENDER_EEVEE", bake_type |-> "COMBINED", device |-> "CPU",
                   denoiser |-> "OPENIMAGEDENOISE", samples |-> 128,
                   use_selected_to_active |-> FALSE ]

VARIABLES
    objs,          \* bpy.data.objects / scene.objects: id -> object, NoObj when free
    geo,           \* geometry of the objects: id -> bound box, world matrix, dimensions
    active,        \* context.active_object (None = 0)
    selection,     \* the selected objects
    mode,          \* context.mode
    render,        \* scene.render / scene.cycles settings
    targetObj,     \* scene.targetObj (None = 0)
    pathToFile,    \* scene.pathToFile: "missing", "readonly" or "writable" directory
    numLights,     \* scene.numLights
    simetric,      \* scene.simetric
    Collection,    \* scene.Collection
    measurements,  \* scene.measurements
    pc,            \* position of the running operator ("idle" between operators)
    op,            \* the operator invoked last
    mesh,          \* the object being exported (obj / mesh / sel in the code)
    meshes,        \* collection export: the members still to visit
    lights,        \* the local list `lights`: << [id, sun] >>
    plane,         \* the local `plane`
    img,           \* the pixels of the image being baked / post-processed
    raw,           \* history: the pixels as the bake left them
    prev,          \* history: the pixels before the latest post-processing pass
    passes,        \* history: post-processing passes applied to img
    visited,       \* history: collection members export_obj was called for
    gen0,          \* history: generated objects in the scene when the operator started
    reports,       \* ERROR reports of the operator invoked last
    glb,           \* objects whose <name>.glb the operator invoked last has written
    result,        \* "none", "RUNNING", "FINISHED", "CANCELLED", "RAISED"
    cursor,        \* scene.cursor.location
    prev_cursor,   \* fix_origin: the local `prev_cursor`
    pre,           \* history: what fix_origin was called with and the scene it found
    objs0,         \* history: the scene objects when the operator started
    stages,        \* history: the stages the export in progress has passed
    files          \* the reference image files that exist on disk

props == << targetObj, pathToFile, numLights, simetric, Collection, measurements >>
locals == << mesh, meshes, lights, plane, img >>
pixhist == << raw, prev, passes >>
pivot == << cursor, prev_cursor, pre >>
vars == << objs, geo, active, selection, mode, render, props, files, pc, op, locals,
           pixhist, visited, gen0, reports, glb, result, pivot, objs0, stages >>

FreeIds == { k \in GenSlots : objs[k].type = "NONE" }
NthFree(n) == CHOOSE x \in FreeIds : Cardinality({ y \in FreeIds : y < x }) = n - 1
Generated == { k \in DOMAIN objs : objs[k].role \in {"shadow_plane", "Shadow_Sun"} }
Planes == { k \in DOMAIN objs : objs[k].role = "shadow_plane" }
\* an operator is started only while fewer than MaxRuns planes are left over
HasRoom == Cardinality(Planes) < MaxRuns


RECURSIVE SeqOfSet(_)
SeqOfSet(S) == IF S = {} THEN << >> ELSE << SetMin(S) >> \o SeqOfSet(S \ {SetMin(S)})

\* what the external renderer may leave in the image: lit, shadowed, soft edge
BakePalette == { Black, << 900, 900, 900, One >> }
BakeOutputs == { [ i \in 1..ImgLen |-> p ] : p \in BakePalette }

\* ------------------------------------------------------- initial states
\* which collection each of the user's objects is linked to: those of A to
\* "Assets", those of R to "References", the others to the context collection
Layout(A, R) ==
    [ u \in UserIds |-> IF u \in A THEN "Assets"
                        ELSE IF u \in R THEN "References" ELSE ContextCollection ]
SceneObjs(layout) ==
    [ k \in 1..MaxObjs |-> IF k \in UserIds THEN UserObj(k, layout[k]) ELSE NoObj ]

SceneInit ==
    /\ objs = SceneObjs(Layout({}, {}))
    /\ files = {}
    /\ active = None
    /\ selection = {}
    /\ render = DefaultRender
    /\ objs0 = objs

\* before fix_origin was ever called
NoCall == [ called |-> FALSE, obj |-> None, cursor |-> << 0, 0, 0 >>,
            selection |-> {}, active |-> None, mode |-> "OBJECT", geo |-> << >> ]

\* the 3D cursor where the user left it, fix_origin not running
PivotIdle ==
    /\ prev_cursor = << 0, 0, 0 >>
    /\ pre = NoCall

IdleInit ==
    /\ op = "none"
    /\ mesh = None
    /\ meshes = << >>
    /\ lights = << >>
    /\ plane = NoPlane
    /\ visited = {}
    /\ gen0 = 0
    /\ reports = 0
    /\ glb = {}
    /\ result = "none"
    /\ stages = << >>

NoImage ==
    /\ img = << >>
    /\ raw = << >>
    /\ prev = << >>
    /\ passes = 0

\* a scene and its panel: target, folder, collection, the user's objects
\* linked to "Assets" (A) and to "References" (R), the image files on disk,
\* the mode the user left the viewport in
Panel(t, d, c, A, R, f, m) ==
    [ targetObj |-> t, pathToFile |-> d, Collection |-> c, layout |-> Layout(A, R),
      files |-> f, mode |-> m ]

NumLightsChoices(n) == { k \in 1..n : NumLightsMin <= k /\ k <= NumLightsMax }

\* the rig settings tried: the largest count in the scene of the plain
\* export, every count and one light jittered in the scene whose target is
\* no mesh, one symmetric light in the others (the jitter of larger rigs is
\* covered by SpecRig)
RigChoices(p) ==
    IF p.targetObj = 1 /\ p.pathToFile = "writable"
    THEN { << SetMax(NumLightsChoices(MaxLights)), TRUE >> }
    ELSE IF p.targetObj = 4
    THEN { << n, TRUE >> : n \in NumLightsChoices(MaxLights) } \cup { << NumLightsMin, FALSE >> }
    ELSE { << NumLightsMin, TRUE >> }
\* the scenes tried: every target, every state of the folder, every kind of
\* collection (unset, empty, of meshes, with a member that is no mesh, the
\* context collection with and without the user's objects), user objects in
\* "References", image files present and absent
PanelChoices ==
    { Panel(t, "writable", NoCollection, {1, 2, 3}, {}, {}, "OBJECT") :
        t \in {None, 1, 2, 4} }
    \cup { Panel(1, d, CollectionNamed("Assets"), {1, 2, 3}, {}, {}, "OBJECT") :
             d \in {"missing", "readonly"} }
    \cup { Panel(3, "writable", NoCollection, {1, 2, 3}, {}, {}, "EDIT_MESH"),
           Panel(None, "writable", CollectionNamed("Assets"), {1, 2, 3}, {},
                 {}, "OBJECT"),
           Panel(None, "writable", CollectionNamed("References"), {1, 2, 3}, {},
                 {}, "EDIT_MESH"),
           Panel(None, "writable", CollectionNamed("Assets"), {3, 4}, {},
                 {}, "OBJECT"),
           Panel(None, "writable", CollectionNamed(ContextCollection), {1, 2, 3, 4},
                 {}, {}, "OBJECT"),
           Panel(None, "writable", CollectionNamed(ContextCollection), {2, 3}, {},
                 {}, "OBJECT"),
           Panel(3, "writable", CollectionNamed("References"), {1, 2}, {3},
                 {"arrow.png"}, "OBJECT"),
           Panel(None, "writable", CollectionNamed("References"), {1, 2, 3}, {},
                 RefFiles, "OBJECT") }

\* the scene after the user has filled in the panel
Init ==
    /\ IdleInit /\ NoImage /\ PivotIdle
    /\ cursor = << 0, 0, 0 >>
    /\ geo = SceneGeo
    /\ active = None
    /\ selection = {}
    /\ render = DefaultRender
    /\ \E p \in PanelChoices :
         /\ objs = SceneObjs(p.layout)
         /\ files = p.files
         /\ mode = p.mode
         /\ targetObj = p.targetObj
         /\ pathToFile = p.pathToFile
         /\ Collection = p.Collection
         /\ \E r \in RigChoices(p) :
              /\ numLights = r[1]
              /\ simetric = r[2]
    /\ objs0 = objs
    /\ measurements = "Table"
    /\ pc = "idle"

\* ------------------------------------------------------ shared stages
\* an exception leaves execute(): the locals are gone, nothing is undone
Raised ==
    /\ pc' = "idle"
    /\ result' = "RAISED"
    /\ stages' = Append(stages, "Idle")
    /\ mesh' = None
    /\ meshes' = << >>
    /\ lights' = << >>
    /\ plane' = NoPlane
    /\ img' = << >> /\ raw' = << >> /\ prev' = << >> /\ passes' = 0

\* execute() returns: the locals are gone
Returned(res) ==
    /\ pc' = "idle"
    /\ result' = res
    /\ mesh' = None
    /\ meshes' = << >>
    /\ lights' = << >>
    /\ plane' = NoPlane
    /\ img' = << >> /\ raw' = << >> /\ prev' = << >> /\ passes' = 0

\* an operator starts: its output is empty (each branch of the operator says
\* how many ERROR reports it makes)
Invoked(name) ==
    /\ op' = name
    /\ glb' = {}
    /\ visited' = {}
    /\ gen0' = Cardinality(Generated)
    /\ objs0' = objs

\* scene objects after create_x_suns_around linked its lights at `ids`
WithLights(sc, ids) ==
    [ k \in DOMAIN sc |-> IF \E i \in DOMAIN ids : ids[i] = k THEN LightObj ELSE sc[k] ]

\* isolate_mesh_render(obj): hide every mesh from the render, then show obj
isolate_mesh_render(sc, o) ==
    IF sc[o].type # "MESH" THEN sc
    ELSE [ k \in DOMAIN sc |->
             IF k = o THEN [ sc[k] EXCEPT !.hide_render = FALSE ]
             ELSE IF sc[k].type = "MESH" THEN [ sc[k] EXCEPT !.hide_render = TRUE ]
             ELSE sc[k] ]

\* setup_render()
setup_render ==
    [ engine |-> "CYCLES", bake_type |-> "SHADOW", device |-> "CPU",
      denoiser |-> render.denoiser, samples |-> BakeSamples,
      use_selected_to_active |-> FALSE ]

\* lights = create_x_suns_around(obj, distance=1.0)
SunsStage(o) ==
    LET ids == [ i \in 1..numLights |-> NthFree(i) ]
    IN  \E rs \in RandomDraws(numLights, simetric) :
          LET suns == create_x_suns_around(geo[o], One, numLights, simetric, rs)
          IN  /\ lights' = [ i \in 1..numLights |-> [ id |-> ids[i], sun |-> suns[i] ] ]
              /\ objs' = WithLights(objs, ids)
              /\ stages' = Append(stages, "LightsBuilt")

\* make_shadow_plane(obj) up to the bake call: render settings, the plane
\* (new, active and selected), its white image, the render isolation.
\* transform_apply at the end of create_plane_at applies the scale, returns
\* CANCELLED, or raises: the exception leaves the new plane in the scene
PlaneStage(o, next) ==
    LET pid == NthFree(1)
        withPlane == [ objs EXCEPT ![pid] = PlaneObj ]
        built == create_plane_at(geo[o], plane_side_len(geo[o]))
    IN  /\ render' = setup_render
        /\ active' = pid
        /\ selection' = {pid}
        /\ geo' = [ geo EXCEPT ![pid] = PlaneGeo(built) ]
        /\ \E outcome \in {"ok", "cancelled", "raise"} :
             IF outcome = "raise"
             THEN Raised /\ objs' = withPlane
             ELSE /\ plane' = PlaneRec(pid, IF outcome = "ok" THEN built
                                            ELSE scale_not_applied(built))
                  /\ img' = create_image(ImgLen)
                  /\ raw' = << >> /\ prev' = << >> /\ passes' = 0
                  /\ objs' = [ isolate_mesh_render(withPlane, o)
                                 EXCEPT ![pid].hide_render = FALSE ]
                  /\ stages' = Append(stages, "PlaneBuilt")
                  /\ pc' = next
                  /\ UNCHANGED << result, mesh, meshes, lights >>

\* bpy.ops.object.bake(type='SHADOW'): the external renderer writes the image
\* and returns, returns CANCELLED leaving the image alone, or raises
BakeStage(next) ==
    \E outcome \in {"ok", "cancelled", "raise"} :
      \E out \in BakeOutputs :
        IF outcome = "raise" THEN Raised
        ELSE /\ img' = (IF outcome = "ok" THEN out ELSE img)
             /\ raw' = img'
             /\ prev' = prev /\ passes' = passes
             /\ pc' = next
             /\ stages' = Append(stages, "Baked")
             /\ UNCHANGED << result, mesh, meshes, lights, plane >>

\* the loop over the pixels at the end of make_shadow_plane
PostStage(next) ==
    /\ prev' = img
    /\ img' = Binarize(img)
    /\ passes' = passes + 1
    /\ raw' = raw
    /\ pc' = next
    /\ stages' = Append(stages, "PostProcessed")

\* select_all(DESELECT); plane.select_set(True); obj.select_set(True)
SelectStage(o, next) ==
    /\ selection' = {plane.id, o}
    /\ pc' = next
    /\ stages' = Append(stages, "Selected")

\* bpy.ops.export_scene.gltf(filepath=<dir>/<name>.glb, use_selection=True):
\* writes the file, returns CANCELLED, or raises; it cannot write into a
\* directory that is not writable
GltfStage(o, next) ==
    \E outcome \in {"ok", "cancelled", "raise"} :
      IF outcome = "raise" \/ pathToFile # "writable"
      THEN Raised /\ glb' = glb
      ELSE /\ glb' = (IF outcome = "ok" THEN glb \cup {o} ELSE glb)
           /\ pc' = next
           /\ stages' = Append(stages, "Exported")
           /\ UNCHANGED << result, locals, pixhist >>

\* bpy.data.objects.remove(plane); for light in lights: remove(light)
RemovedPlaneOnly == { plane.id }
Removed == { plane.id } \cup { lights[i].id : i \in DOMAIN lights }
CleanupStage ==
    /\ objs' = [ k \in DOMAIN objs |-> IF k \in Removed THEN NoObj ELSE objs[k] ]
    /\ geo' = [ k \in DOMAIN geo |-> IF k \in Removed THEN NoGeo ELSE geo[k] ]
    /\ selection' = selection \ Removed
    /\ stages' = stages \o << "CleanedUp", "Idle" >>


\* --------------------------------- OBJECT_OT_export_obj_glb.execute
\* mode_set, then the initial checks: target present, os.path.isdir(path),
\* target a mesh.  A failed check reports one ERROR and returns CANCELLED.
ExportObj_Execute ==
    /\ pc = "idle"
    /\ HasRoom
    /\ Invoked("export")
    /\ mode' = "OBJECT"
    /\ IF targetObj = None \/ pathToFile = "missing"
       THEN reports' = 1 /\ Returned("CANCELLED")
       ELSE IF objs[targetObj].type # "MESH"
       THEN reports' = 1 /\ Returned("CANCELLED")
       ELSE /\ pc' = "x_suns"
            /\ reports' = 0
            /\ result' = "RUNNING"
            /\ mesh' = targetObj
            /\ UNCHANGED << meshes, lights, plane, pixhist, img >>
    /\ UNCHANGED << objs, geo, active, selection, render, props, files >>
    /\ stages' = << "Idle" >>
    /\ pre' = NoCall
    /\ UNCHANGED << cursor, prev_cursor >>

ExportObj_Suns ==
    /\ pc = "x_suns"
    /\ SunsStage(targetObj)
    /\ pc' = "x_plane"
    /\ UNCHANGED << geo, active, selection, mode, render, props, files, op, mesh, meshes,
                    plane, img, pixhist, visited, gen0, reports, glb, result >>
    /\ UNCHANGED << pivot, objs0 >>

ExportObj_Plane ==
    /\ pc = "x_plane"
    /\ PlaneStage(targetObj, "x_bake")
    /\ UNCHANGED << mode, props, files, op, visited, gen0, reports, glb, pivot, objs0 >>

ExportObj_Bake ==
    /\ pc = "x_bake"
    /\ BakeStage("x_post")
    /\ UNCHANGED << objs, geo, active, selection, mode, render, props, files, op, visited,
                    gen0, reports, glb >>
    /\ UNCHANGED << pivot, objs0 >>

ExportObj_Post ==
    /\ pc = "x_post"
    /\ PostStage("x_select")
    /\ UNCHANGED << objs, geo, active, selection, mode, render, props, files, op, mesh, meshes,
                    lights, plane, visited, gen0, reports, glb, result >>
    /\ UNCHANGED << pivot, objs0 >>

ExportObj_Select ==
    /\ pc = "x_select"
    /\ SelectStage(targetObj, "x_gltf")
    /\ UNCHANGED << objs, geo, active, mode, render, props, files, op, locals, pixhist,
                    visited, gen0, reports, glb, result >>
    /\ UNCHANGED << pivot, objs0 >>

ExportObj_Gltf ==
    /\ pc = "x_gltf"
    /\ GltfStage(targetObj, "x_cleanup")
    /\ UNCHANGED << objs, geo, active, selection, mode, render, props, files, op, visited,
                    gen0, reports >>
    /\ UNCHANGED << pivot, objs0 >>

\* remove plane and lights, make the target active, return FINISHED
ExportObj_Cleanup ==
    /\ pc = "x_cleanup"
    /\ CleanupStage
    /\ active' = targetObj
    /\ Returned("FINISHED")
    /\ UNCHANGED << mode, render, props, files, op, visited, gen0, reports, glb >>
    /\ UNCHANGED << pivot, objs0 >>

\* --------------------------- OBJECT_OT_export_collection_glb.execute
\* the initial checks (collection set, os.path.isdir(path), collection not
\* empty), the list of mesh members, mode_set.  Collection.all_objects is
\* read from the scene as it is now: it holds whatever earlier operators
\* left in that collection
ExportColl_Execute ==
    /\ pc = "idle"
    /\ HasRoom
    /\ Invoked("coll")
    /\ IF ~Collection.set \/ pathToFile = "missing"
          \/ all_objects(objs, Collection.name) = {}
       THEN /\ reports' = 1
            /\ Returned("CANCELLED")
            /\ mode' = mode
       ELSE /\ meshes' = SeqOfSet({ m \in all_objects(objs, Collection.name) :
                                      objs[m].type = "MESH" })
            /\ mode' = "OBJECT"
            /\ pc' = "c_loop"
            /\ reports' = 0
            /\ result' = "RUNNING"
            /\ UNCHANGED << mesh, lights, plane, img, pixhist >>
    /\ UNCHANGED << objs, geo, active, selection, render, props, files >>
    /\ stages' = << "Idle" >>
    /\ pre' = NoCall
    /\ UNCHANGED << cursor, prev_cursor >>

\* for mesh in meshes: a member that is no mesh is reported and skipped,
\* any other is handed to export_obj; after the last member return FINISHED
ExportColl_Loop ==
    /\ pc = "c_loop"
    /\ IF meshes = << >>
       THEN Returned("FINISHED") /\ UNCHANGED << reports, visited, stages >>
       ELSE /\ meshes' = Tail(meshes)
            /\ IF objs[Head(meshes)].type # "MESH"
               THEN /\ reports' = reports + 1
                    /\ pc' = "c_loop"
                    /\ UNCHANGED << mesh, visited, stages >>
               ELSE /\ mesh' = Head(meshes)
                    /\ visited' = visited \cup {Head(meshes)}
                    /\ pc' = "c_suns"
                    /\ stages' = << "Idle" >>
                    /\ reports' = reports
            /\ UNCHANGED << lights, plane, img, pixhist, result >>
    /\ UNCHANGED << objs, geo, active, selection, mode, render, props, files, op, gen0, glb >>
    /\ UNCHANGED << pivot, objs0 >>

\* ------------------------------------------------------- export_obj(obj)
ExportColl_Suns ==
    /\ pc = "c_suns"
    /\ SunsStage(mesh)
    /\ pc' = "c_plane"
    /\ UNCHANGED << geo, active, selection, mode, render, props, files, op, mesh, meshes,
                    plane, img, pixhist, visited, gen0, reports, glb, result >>
    /\ UNCHANGED << pivot, objs0 >>

ExportColl_Plane ==
    /\ pc = "c_plane"
    /\ PlaneStage(mesh, "c_bake")
    /\ UNCHANGED << mode, props, files, op, visited, gen0, reports, glb, pivot, objs0 >>

ExportColl_Bake ==
    /\ pc = "c_bake"
    /\ BakeStage("c_post")
    /\ UNCHANGED << objs, geo, active, selection, mode, render, props, files, op, visited,
                    gen0, reports, glb >>
    /\ UNCHANGED << pivot, objs0 >>

ExportColl_Post ==
    /\ pc = "c_post"
    /\ PostStage("c_select")
    /\ UNCHANGED << objs, geo, active, selection, mode, render, props, files, op, mesh, meshes,
                    lights, plane, visited, gen0, reports, glb, result >>
    /\ UNCHANGED << pivot, objs0 >>

ExportColl_Select ==
    /\ pc = "c_select"
    /\ SelectStage(mesh, "c_gltf")
    /\ UNCHANGED << objs, geo, active, mode, render, props, files, op, locals, pixhist,
                    visited, gen0, reports, glb, result >>
    /\ UNCHANGED << pivot, objs0 >>

ExportColl_Gltf ==
    /\ pc = "c_gltf"
    /\ GltfStage(mesh, "c_cleanup")
    /\ UNCHANGED << objs, geo, active, selection, mode, render, props, files, op, visited,
                    gen0, reports >>
    /\ UNCHANGED << pivot, objs0 >>

\* remove plane and lights (the removed plane was the active object), back
\* to the loop
ExportColl_Cleanup ==
    /\ pc = "c_cleanup"
    /\ CleanupStage
    /\ active' = (IF active \in Removed THEN None ELSE active)
    /\ pc' = "c_loop"
    /\ mesh' = None
    /\ lights' = << >>
    /\ plane' = NoPlane
    /\ img' = << >> /\ raw' = << >> /\ prev' = << >> /\ passes' = 0
    /\ UNCHANGED << mode, render, props, files, op, meshes, visited, gen0, reports,
                    glb, result >>
    /\ UNCHANGED << pivot, objs0 >>

\* ------------------------------ OBJECT_OT_bake_shadow_texture.execute
\* transform_apply at the end of create_plane_at raised: the exception leaves
\* execute() with the new plane in the scene, before any light is created
BakeShadow_PlaneRaised(pid, p) ==
    /\ objs' = [ objs EXCEPT ![pid] = PlaneObj ]
    /\ geo' = [ geo EXCEPT ![pid] = PlaneGeo(p) ]
    /\ pc' = "idle"
    /\ result' = "RAISED"
    /\ stages' = << "Idle", "Idle" >>
    /\ mesh' = None
    /\ meshes' = << >>
    /\ lights' = << >>
    /\ plane' = NoPlane
    /\ img' = << >> /\ raw' = << >> /\ prev' = << >> /\ passes' = 0

\* the plane, its white image and the lights are there: on to the bake call
BakeShadow_Built(sel, pid, ids, suns, p) ==
    /\ plane' = PlaneRec(pid, p)
    /\ img' = create_image(ImgLen)
    /\ raw' = << >> /\ prev' = << >> /\ passes' = 0
    /\ lights' = [ i \in 1..numLights |-> [ id |-> ids[i], sun |-> suns[i] ] ]
    /\ objs' = WithLights([ objs EXCEPT ![pid] = PlaneObj ], ids)
    /\ geo' = [ geo EXCEPT ![pid] = PlaneGeo(p) ]
    /\ mesh' = sel
    /\ meshes' = << >>
    /\ pc' = "b_bake"
    /\ stages' = << "Idle", "PlaneBuilt", "LightsBuilt" >>
    /\ result' = "RUNNING"

\* the objects the user runs the bake operator on: the target of the panel
\* (the first mesh when the target is unset or no mesh) and the empty
BakeTargets ==
    { u \in UserIds : UserType(u) # "MESH" }
    \cup (IF targetObj # None /\ objs[targetObj].type = "MESH"
          THEN {targetObj} ELSE {SetMin(UserIds)})

\* The user makes `sel` the active object and runs the operator: the check,
\* the render settings, the plane, its image, the lights.  Nothing the
\* operator creates is removed by it.
BakeShadow_Execute ==
    /\ pc = "idle"
    /\ HasRoom
    /\ Invoked("bake")
    /\ \E sel \in {None} \cup { u \in BakeTargets : objs[u].role = "user" } :
         IF sel = None
         THEN /\ reports' = 1
              /\ Returned("CANCELLED")
              /\ active' = sel
              /\ stages' = << "Idle" >>
              /\ UNCHANGED << objs, geo, selection, render >>
         ELSE IF objs[sel].type # "MESH"
         THEN /\ reports' = 1
              /\ Returned("CANCELLED")
              /\ active' = sel
              /\ stages' = << "Idle" >>
              /\ UNCHANGED << objs, geo, selection, render >>
         ELSE LET pid == NthFree(1)
                  ids == [ i \in 1..numLights |-> NthFree(i + 1) ]
                  built == create_plane_at(geo[sel], plane_side_len(geo[sel]))
              IN  \E rs \in RandomDraws(numLights, simetric),
                     outcome \in {"ok", "cancelled", "raise"} :
                    LET suns == create_x_suns_around(geo[sel], One, numLights, simetric, rs)
                    IN  /\ render' = [ render EXCEPT !.engine = "CYCLES", !.device = "GPU",
                                                     !.bake_type = "SHADOW",
                                                     !.denoiser = "OPTIX",
                                                     !.samples = BakeSamples ]
                        /\ reports' = 0
                        /\ active' = pid
                        /\ selection' = {pid}
                        /\ IF outcome = "raise"
                           THEN BakeShadow_PlaneRaised(pid, built)
                           ELSE BakeShadow_Built(sel, pid, ids, suns,
                                                 IF outcome = "ok" THEN built
                                                 ELSE scale_not_applied(built))
    /\ UNCHANGED << mode, props, files >>
    /\ pre' = NoCall
    /\ UNCHANGED << cursor, prev_cursor >>

BakeShadow_Bake ==
    /\ pc = "b_bake"
    /\ BakeStage("b_post")
    /\ UNCHANGED << objs, geo, active, selection, mode, render, props, files, op, visited,
                    gen0, reports, glb >>
    /\ UNCHANGED << pivot, objs0 >>

\* the pixel loop, the PNG is saved, INFO is reported, FINISHED
BakeShadow_Post ==
    /\ pc = "b_post"
    /\ Returned("FINISHED")
    /\ UNCHANGED << objs, geo, active, selection, mode, render, props, files, op, visited,
                    gen0, reports, glb >>
    /\ stages' = stages \o << "PostProcessed", "Idle" >>
    /\ UNCHANGED << pivot, objs0 >>

\* ------------------------------------------------------------ fix_origin
\* the scene fix_origin finds when it is called with obj
Found(obj) == [ called |-> TRUE, obj |-> obj, cursor |-> cursor,
                selection |-> selection, active |-> active, mode |-> mode,
                geo |-> geo ]

\* fix_origin returns: its locals are gone
PivotReturned(caller) ==
    /\ pc' = "idle"
    /\ result' = (IF caller = "reset_pivot" THEN "FINISHED" ELSE "RETURNED")
    /\ prev_cursor' = << 0, 0, 0 >>
    /\ mesh' = None

\* an exception leaves fix_origin (and execute): nothing is undone
PivotRaised ==
    /\ pc' = "idle"
    /\ result' = "RAISED"
    /\ prev_cursor' = << 0, 0, 0 >>
    /\ mesh' = None

\* fix_origin(obj) down to the cursor move: `obj.type` is read first, so an
\* absent object raises AttributeError; an object that is no mesh returns;
\* mode_set is called outside object mode; the cursor is saved and moved to
\* the bottom centre
fix_origin(obj) ==
    /\ pre' = Found(obj)
    /\ IF obj = None
       THEN PivotRaised /\ UNCHANGED << mode, cursor >>
       ELSE IF objs[obj].type # "MESH"
       THEN PivotReturned(op') /\ UNCHANGED << mode, cursor >>
       ELSE \E outcome \in {"ok", "raise"} :
              IF mode # "OBJECT" /\ outcome = "raise"
              THEN PivotRaised /\ UNCHANGED << mode, cursor >>
              ELSE /\ mode' = "OBJECT"
                   /\ prev_cursor' = cursor
                   /\ cursor' = center_world(geo[obj])
                   /\ pc' = "p_origin"
                   /\ result' = "RUNNING"
                   /\ mesh' = obj
    /\ stages' = << >>
    /\ UNCHANGED << objs, geo, active, selection, render, props, files, meshes, lights, plane,
                    img, pixhist >>

\* a script calls fix_origin(obj)
FixOrigin_Call ==
    /\ pc = "idle"
    /\ op' = "fix_origin"
    /\ \E obj \in {None} \cup { u \in UserIds : objs[u].role = "user" } : fix_origin(obj)
    /\ UNCHANGED << visited, gen0, reports, glb, objs0 >>

\* OBJECT_OT_reset_pivot: poll (target present and a mesh), then
\* execute: fix_origin(targetObj)
ResetPivot_Execute ==
    /\ pc = "idle"
    /\ targetObj # None
    /\ objs[targetObj].type = "MESH"
    /\ Invoked("reset_pivot")
    /\ reports' = 0
    /\ fix_origin(targetObj)

\* select_all(DESELECT); obj.select_set(True); origin_set(ORIGIN_CURSOR)
FixOrigin_OriginSet ==
    /\ pc = "p_origin"
    /\ selection' = {mesh}
    /\ \E outcome \in {"ok", "cancelled", "raise"} :
         IF outcome = "raise"
         THEN PivotRaised /\ UNCHANGED geo
         ELSE /\ geo' = (IF outcome = "ok"
                         THEN [ geo EXCEPT ![mesh] = origin_set(geo[mesh], cursor) ]
                         ELSE geo)
              /\ pc' = "p_apply"
              /\ UNCHANGED << result, prev_cursor, mesh >>
    /\ UNCHANGED << objs, active, mode, render, props, files, op, meshes, lights, plane,
                    img, pixhist, visited,
                    gen0, reports, glb, cursor, pre, objs0, stages >>

\* obj.location = (0, 0, 0); the cursor is put back; transform_apply(scale)
FixOrigin_Apply ==
    /\ pc = "p_apply"
    /\ cursor' = prev_cursor
    /\ \E outcome \in {"ok", "cancelled", "raise"} :
         /\ geo' = [ geo EXCEPT ![mesh] = IF outcome = "ok"
                                          THEN transform_apply(moved_to_zero(geo[mesh]))
                                          ELSE moved_to_zero(geo[mesh]) ]
         /\ IF outcome = "raise" THEN PivotRaised ELSE PivotReturned(op)
    /\ UNCHANGED << objs, active, selection, mode, render, props, files, op, meshes,
                    lights, plane, img, pixhist, visited, gen0, reports, glb, pre,
                    objs0, stages >>

\* ------------------------------- OBJECT_OT_setup_ref_images.execute
\* setup_ref_images: every object of "References" is removed from the scene
\* (do_unlink: what pointed to it is cleared), then setup_ref_image adds an
\* image empty for each of the two files that exists, active and selected,
\* and it is linked to "References".  Loading a file or adding its empty may
\* raise: the images added before stay
SetupRefImages_Execute ==
    /\ pc = "idle"
    /\ Invoked("ref_images")
    /\ reports' = 0
    /\ LET removed == all_objects(objs, "References")
            slots == SeqOfSet(RefSlots)
        IN  \E added \in 0..Cardinality(files) :
              /\ objs' = [ k \in DOMAIN objs |->
                             IF \E i \in 1..added : slots[i] = k THEN RefImageObj
                             ELSE IF k \in removed THEN NoObj ELSE objs[k] ]
              /\ geo' = [ k \in DOMAIN geo |-> IF k \in removed THEN NoGeo ELSE geo[k] ]
              /\ targetObj' = (IF targetObj \in removed THEN None ELSE targetObj)
              /\ active' = (IF added > 0 THEN slots[added]
                            ELSE IF active \in removed THEN None ELSE active)
              /\ selection' = (IF added > 0 THEN {slots[added]}
                               ELSE selection \ removed)
              /\ Returned(IF added = Cardinality(files) THEN "FINISHED" ELSE "RAISED")
    /\ pre' = NoCall
    /\ stages' = << >>
    /\ UNCHANGED << mode, render, pathToFile, numLights, simetric, Collection,
                    measurements, files, cursor, prev_cursor >>

Next ==
    \/ ResetPivot_Execute \/ FixOrigin_OriginSet \/ FixOrigin_Apply
    \/ SetupRefImages_Execute
    \/ ExportObj_Execute \/ ExportObj_Suns \/ ExportObj_Plane \/ ExportObj_Bake
    \/ ExportObj_Post \/ ExportObj_Select \/ ExportObj_Gltf \/ ExportObj_Cleanup
    \/ ExportColl_Execute \/ ExportColl_Loop \/ ExportColl_Suns \/ ExportColl_Plane
    \/ ExportColl_Bake \/ ExportColl_Post \/ ExportColl_Select \/ ExportColl_Gltf
    \/ ExportColl_Cleanup
    \/ BakeShadow_Execute \/ BakeShadow_Bake \/ BakeShadow_Post

Spec == Init /\ [][Next]_vars

TypeOK ==
    /\ pc \in {"idle", "x_suns", "x_plane", "x_bake", "x_post", "x_select", "x_gltf",
               "x_cleanup", "c_loop", "c_suns", "c_plane", "c_bake", "c_post",
               "c_select", "c_gltf", "c_cleanup", "b_bake", "b_post", "p_origin",
               "p_apply"}
    /\ result \in {"none", "RUNNING", "FINISHED", "CANCELLED", "RAISED", "RETURNED"}
    /\ Len(lights) \in {0, numLights}


\* ------------------------------------- the pixel pass on its own inputs
ChanGrid == { (k * One) \div ChanLevels : k \in 0..ChanLevels }
GridPixels == { << r, g, b, a >> : r \in ChanGrid, g \in ChanGrid, b \in ChanGrid,
                                   a \in {0, One} }
PalettePixels == { White, Black, << 900, 900, 900, One >>, << One, 0, 0, 0 >> }
\* images whose first pixel ranges over the grid and whose others over the palette
RawImages ==
    { [ i \in 1..PixLen |-> IF i = 1 THEN p ELSE q[i] ] :
        p \in GridPixels, q \in [ 1..PixLen -> PalettePixels ] }

\* the panel as registered: PROPS defaults
DefaultPanel ==
    /\ targetObj = None
    /\ pathToFile = "missing"
    /\ numLights = NumLightsDefault
    /\ simetric = FALSE
    /\ Collection = NoCollection
    /\ measurements = "Table"

InitPix ==
    /\ SceneInit /\ IdleInit /\ DefaultPanel /\ PivotIdle
    /\ cursor = << 0, 0, 0 >>
    /\ geo = SceneGeo
    /\ mode = "OBJECT"
    /\ pc = "pix"
    /\ img \in RawImages
    /\ raw = img
    /\ prev = img
    /\ passes = 0

\* the loop over the pixels, applied to the image once more
Pix_Pass ==
    /\ pc = "pix"
    /\ passes < MaxPasses
    /\ PostStage("pix")
    /\ UNCHANGED << objs, geo, active, selection, mode, render, props, files, op, mesh, meshes,
                    lights, plane, visited, gen0, reports, glb, result >>
    /\ UNCHANGED << pivot, objs0 >>

NextPix == Pix_Pass

SpecPix == InitPix /\ [][NextPix]_vars

\* --------------------------------------- the light rig on its own inputs
InitRig ==
    /\ SceneInit /\ IdleInit /\ NoImage /\ PivotIdle
    /\ cursor = << 0, 0, 0 >>
    /\ geo = SceneGeo
    /\ mode = "OBJECT"
    /\ targetObj \in { u \in UserIds : UserType(u) = "MESH" }
    /\ pathToFile = "writable"
    /\ numLights \in NumLightsChoices(RigMaxLights)
    /\ simetric \in BOOLEAN
    /\ Collection = NoCollection
    /\ measurements = "Table"
    /\ pc = "rig"

\* lights = create_x_suns_around(targetObj, distance=1.0)
Rig_Build ==
    /\ pc = "rig"
    /\ SunsStage(targetObj)
    /\ pc' = "rig_built"
    /\ UNCHANGED << geo, active, selection, mode, render, props, files, op, mesh, meshes,
                    plane, img, pixhist, visited, gen0, reports, glb, result >>
    /\ UNCHANGED << pivot, objs0 >>

NextRig == Rig_Build

SpecRig == InitRig /\ [][NextRig]_vars

\* ------------------------------------ the shadow plane on its own inputs
DimGrid == { k * (One \div 10) : k \in 0..MaxDim }

InitPlane ==
    /\ SceneInit /\ IdleInit /\ NoImage /\ PivotIdle
    /\ cursor = << 0, 0, 0 >>
    /\ \E dx \in DimGrid, dy \in DimGrid, dz \in DimGrid :
         geo = [ SceneGeo EXCEPT ![1] = Geo(<< -(dx \div 2), -(dy \div 2), 0 >>,
                                           << dx - (dx \div 2), dy - (dy \div 2), dz >>,
                                           Identity, << 1000, 2000, 0 >>) ]
    /\ mode = "OBJECT"
    /\ targetObj = 1
    /\ pathToFile = "writable"
    /\ numLights = NumLightsDefault
    /\ simetric = FALSE
    /\ Collection = NoCollection
    /\ measurements = "Table"
    /\ pc = "size"

\* make_shadow_plane(targetObj) up to the bake call
Plane_Build ==
    /\ pc = "size"
    /\ PlaneStage(targetObj, "size_built")
    /\ UNCHANGED << mode, props, files, op, visited, gen0, reports, glb, pivot, objs0 >>

NextPlane == Plane_Build

SpecPlane == InitPlane /\ [][NextPlane]_vars

\* --------------------------------------- fix_origin on its own inputs
\* where the user may have left the 3D cursor
CursorChoices == { << 0, 0, 0 >>, << 250, -750, 1500 >> }

\* the scene before the pivot is reset: nothing or object 3 selected and
\* active, edit mode only with an active object
InitPivot ==
    /\ objs = SceneObjs(Layout({}, {}))
    /\ files = {}
    /\ objs0 = objs
    /\ render = DefaultRender
    /\ IdleInit /\ NoImage /\ PivotIdle
    /\ geo = SceneGeo
    /\ cursor \in CursorChoices
    /\ active \in {None, 3}
    /\ selection = (IF active = None THEN {} ELSE {active})
    /\ mode \in (IF active = None THEN {"OBJECT"} ELSE {"OBJECT", "EDIT_MESH"})
    /\ targetObj \in {None} \cup UserIds
    /\ pathToFile = "missing"
    /\ numLights = NumLightsDefault
    /\ simetric = FALSE
    /\ Collection = NoCollection
    /\ measurements = "Table"
    /\ pc = "idle"

NextPivot ==
    \/ FixOrigin_Call \/ ResetPivot_Execute \/ FixOrigin_OriginSet \/ FixOrigin_Apply

SpecPivot == InitPivot /\ [][NextPivot]_vars


\* ====================================================== the claims
\* the members the collection export found when it started
Members == IF Collection.set THEN all_objects(objs0, Collection.name) ELSE {}
MeshMembers == { m \in Members : objs0[m].type = "MESH" }
Suns == { k \in DOMAIN objs : objs[k].role = "Shadow_Sun" }

\* C1: in the single-object export and in each per-member export of the
\* collection export, the shadow plane and every generated light are removed
\* by the time the operation ends, whether the bake or export call succeeds,
\* fails or throws: whenever an export operator has ended (or stands between
\* two members), the scene holds as many generated objects as when it started.
C1_CleanupAlways ==
    (op \in {"export", "coll"} /\ pc \in {"idle", "c_loop"})
        => Cardinality(Generated) = gen0

\* C2: the export checks target present, target a mesh, and destination
\* directory existing and writable, strictly before any light or plane is
\* created; when a check fails the operator has reported an error, is
\* cancelled, and the scene holds no object that was not there before.
ExportPreconditions ==
    /\ targetObj # None
    /\ objs[targetObj].type = "MESH"
    /\ pathToFile = "writable"
CollPreconditions ==
    /\ Collection.set
    /\ Members # {}
    /\ pathToFile = "writable"
C2_ChecksBeforeCreation ==
    ((op = "export" /\ ~ExportPreconditions) \/ (op = "coll" /\ ~CollPreconditions))
        => /\ pc = "idle"
           /\ result = "CANCELLED"
           /\ reports >= 1
           /\ Cardinality(Generated) = gen0

\* C3: in the collection export a failing bake or export call for one member
\* does not abort the loop: when the operator has ended after passing its
\* initial checks, export_obj has been called for every mesh member.
C3_LoopContinues ==
    (op = "coll" /\ pc = "idle" /\ result \in {"FINISHED", "RAISED"})
        => visited = MeshMembers

\* C4 (as stated): a completed pipeline operation (bake shadow, export single
\* object, export collection) leaves no plane and no light of its own behind:
\* the number of generated objects after it equals the number before it.
C4_NoAccumulation ==
    (pc = "idle" /\ result \in {"FINISHED", "CANCELLED"})
        => Cardinality(Generated) = gen0

\* C4 (amended): a completed export (single object or collection) and any
\* cancelled operator leave the number of generated objects unchanged; a
\* completed bake-shadow operator leaves its plane and its numLights lights
\* in the scene, so each bake run adds 1 + numLights generated objects.
C4_BakeKeepsExportCleans ==
    /\ (pc = "idle" /\ result = "CANCELLED") => Cardinality(Generated) = gen0
    /\ (pc = "idle" /\ result = "FINISHED" /\ op \in {"export", "coll"})
           => Cardinality(Generated) = gen0
    /\ (pc = "idle" /\ result = "FINISHED" /\ op = "bake")
           => Cardinality(Generated) = gen0 + 1 + numLights

\* a second bake run has finished: the first run's plane and lights are
\* still there and the second run's have been added
C4_Witness ==
    /\ pc = "idle" /\ op = "bake" /\ result = "FINISHED"
    /\ gen0 = 1 + numLights
    /\ Cardinality(Generated) = 2 * (1 + numLights)

\* C5: in the collection export a member failing the height range of the
\* selected preset, or the mesh-type check, is skipped with one reported
\* error and produces no GLB, while the others are exported: no invalid
\* member has a GLB and one error is reported per invalid member.
HeightInRange(m) ==
    /\ geo[m].dimensions[3] >= MEASUREMENTS[measurements][1]
    /\ geo[m].dimensions[3] <= MEASUREMENTS[measurements][2]
InvalidMembers ==
    { m \in Members : objs0[m].type # "MESH" \/ ~HeightInRange(m) }
C5_InvalidMembersSkipped ==
    (op = "coll" /\ pc = "idle" /\ result = "FINISHED")
        => /\ glb \cap InvalidMembers = {}
           /\ reports = Cardinality(InvalidMembers)

\* the side length the claim speaks of, from the dimensions alone:
\* 4 * 1.2 * max(dimX, dimY, dimZ) = 4.8 * max
FourRadius(d) == (48 * Max3(d[1], d[2], d[3])) \div 10

\* the edge of the plane as built, along local axis i: the extent of its
\* mesh data times the scale left on the object
PlaneEdge(i) == (plane.extent[i] * plane.scale[i]) \div One

\* C6: for every mesh the shadow plane is built with side length
\* max(4 * estimateRadius, 1.0), estimateRadius = 1.2 * max(dimX, dimY, dimZ):
\* once the plane is built its edge in X and in Y is that length, never
\* below 1.0; dimensions (1,1,2) give 9.6 and zero dimensions give 1.0.
C6_SideLenAtLeastOne ==
    pc = "size_built"
        => LET d == geo[targetObj].dimensions
           IN  /\ PlaneEdge(1) = Max2(FourRadius(d), One)
               /\ PlaneEdge(2) = Max2(FourRadius(d), One)
               /\ PlaneEdge(1) >= One
               /\ (d = << One, One, 2 * One >> => PlaneEdge(1) = 9600)
               /\ (d = << 0, 0, 0 >> => PlaneEdge(1) = One)

\* the world-space Z of the 8 bounding-box corners, from the matrix rows
CornerZs(g) ==
    { g.matrix[3][1] * x + g.matrix[3][2] * y + g.matrix[3][3] * z + g.translation[3] :
        x \in {g.lo[1], g.hi[1]}, y \in {g.lo[2], g.hi[2]}, z \in {g.lo[3], g.hi[3]} }

\* C7: the shadow plane stands at (object world X, object world Y, minZ),
\* minZ the lowest world Z of the 8 bounding-box corners, at the time of the
\* bake and of the export.
C7_PlaneAtMinZ ==
    pc \in {"x_bake", "x_gltf", "c_bake", "c_gltf", "b_bake"}
        => /\ plane.id \in Planes
           /\ plane.location[1] = geo[mesh].translation[1]
           /\ plane.location[2] = geo[mesh].translation[2]
           /\ plane.location[3] \in CornerZs(geo[mesh])
           /\ \A z \in CornerZs(geo[mesh]) : plane.location[3] <= z

\* the mirrored box (its lowest world corner is its local top) is about to
\* be exported with its plane at z = 0.5 - 0.73
C7_Witness ==
    /\ pc = "x_gltf"
    /\ mesh = 2
    /\ plane.location = << -1000, 0, -230 >>

\* C8: the pass maps every pixel (r,g,b,a), independently of the other
\* pixels and of a, to (0, 0, 0, 1 - max(r,g,b)); the alpha stays in [0,1]
\* and the pixel count is unchanged.
C8_PixelPass ==
    passes >= 1
        => /\ Len(img) = Len(prev)
           /\ \A i \in 1..Len(img) :
                /\ img[i][1] = 0 /\ img[i][2] = 0 /\ img[i][3] = 0
                /\ One - img[i][4] \in { prev[i][1], prev[i][2], prev[i][3] }
                /\ One - img[i][4] >= prev[i][1]
                /\ One - img[i][4] >= prev[i][2]
                /\ One - img[i][4] >= prev[i][3]
                /\ 0 <= img[i][4] /\ img[i][4] <= One

\* (0.9, 0.9, 0.9, 1.0) has become (0, 0, 0, 0.1) next to a black pixel that
\* stayed (0, 0, 0, 1)
C8_Witness ==
    /\ passes = 1
    /\ raw[1] = << 900, 900, 900, One >> /\ img[1] = << 0, 0, 0, 100 >>
    /\ raw[2] = Black /\ img[2] = Black

\* C9 (as stated): on an image whose raw pixels are all (0,0,0,1) or
\* (1,1,1,1), a second pass yields exactly the image of the first pass.
C9_SecondPassSame ==
    (passes = 2 /\ \A i \in 1..Len(raw) : raw[i] \in {Black, White})
        => img = prev

\* C9 (amended): a second pass turns every pixel into opaque black
\* (0,0,0,1); it reproduces the first pass exactly at the pixels whose raw
\* max(r,g,b) is 0, so raw (0,0,0,1) stays (0,0,0,1) while raw (1,1,1,1)
\* is (0,0,0,0) after one pass and (0,0,0,1) after two.
C9_SecondPassOpaque ==
    passes = 2
        => \A i \in 1..Len(img) :
             /\ img[i] = << 0, 0, 0, One >>
             /\ (img[i] = prev[i]) <=> (raw[i][1] = 0 /\ raw[i][2] = 0 /\ raw[i][3] = 0)
             /\ (raw[i] = White => prev[i] = << 0, 0, 0, 0 >>)

\* a white and a black raw pixel after two passes
C9_Witness ==
    /\ passes = 2
    /\ raw[1] = White /\ prev[1] = << 0, 0, 0, 0 >> /\ img[1] = Black
    /\ raw[2] = Black /\ prev[2] = Black /\ img[2] = Black

\* C10: a rig of count N has exactly N lights; with symmetric on, light i
\* (0-based) has azimuth exactly i*360/N degrees about the object; with
\* symmetric off its azimuth lies within 360/(4N) degrees of i*360/N.
C10_LightRing ==
    pc = "rig_built"
        => /\ Len(lights) = numLights
           /\ Cardinality(Suns) = numLights
           /\ Cardinality({ lights[i].id : i \in 1..Len(lights) }) = numLights
           /\ \A i \in 1..Len(lights) :
                LET th == lights[i].sun.theta
                    off == th.n * numLights - (i - 1) * 360 * th.d
                IN  /\ lights[i].id \in Suns
                    /\ th.d > 0
                    /\ lights[i].sun.dist > 0
                    /\ lights[i].sun.center = << geo[targetObj].location[1],
                                                 geo[targetObj].location[2] >>
                    /\ simetric => off = 0
                    /\ ~simetric => (-90 * th.d <= off /\ off <= 90 * th.d)

\* four symmetric lights at 0, 90, 180 and 270 degrees
C10_Witness ==
    /\ pc = "rig_built" /\ numLights = 4 /\ simetric
    /\ Len(lights) = 4
    /\ lights[1].sun.theta = [ n |-> 0, d |-> 1 ]
    /\ lights[2].sun.theta = [ n |-> 90, d |-> 1 ]
    /\ lights[3].sun.theta = [ n |-> 180, d |-> 1 ]
    /\ lights[4].sun.theta = [ n |-> 270, d |-> 1 ]

\* C11: fix_origin is a silent no-op when its object is absent (None) or is
\* not a mesh: once such a call has ended it has not raised, and the cursor,
\* the selection, the active object, the mode and every object's origin and
\* location are what the call found.
C11_SilentNoOp ==
    (pre.called /\ pc = "idle" /\ (pre.obj = None \/ objs[pre.obj].type # "MESH"))
        => /\ result # "RAISED"
           /\ cursor = pre.cursor
           /\ selection = pre.selection
           /\ active = pre.active
           /\ mode = pre.mode
           /\ geo = pre.geo

\* C12: fix_origin puts the 3D cursor back on every exit path: once a call
\* has ended, by returning or by an exception of any host call (mode_set,
\* origin_set, transform_apply), the cursor is where the call found it.
C12_CursorRestored ==
    (pre.called /\ pc = "idle") => cursor = pre.cursor

\* C13: every export of one object (the single-object export, and export_obj
\* for each member of the collection export) passes through the stages Idle,
\* LightsBuilt, PlaneBuilt, Baked, PostProcessed, Selected, Exported,
\* CleanedUp, Idle in this order, none skipped, repeated or revisited: while
\* it runs the stages passed are an initial part of that cycle, and once it
\* has ended they are the whole cycle.
FullCycle == << "Idle", "LightsBuilt", "PlaneBuilt", "Baked", "PostProcessed",
                "Selected", "Exported", "CleanedUp", "Idle" >>
ExportStarted ==
    \/ op = "export" /\ result \in {"RUNNING", "FINISHED", "RAISED"}
    \/ op = "coll" /\ visited # {}
C13_StageOrder ==
    ExportStarted =>
        /\ Len(stages) <= Len(FullCycle)
        /\ stages = SubSeq(FullCycle, 1, Len(stages))
        /\ pc \in {"idle", "c_loop"} => stages = FullCycle

\* C14: when the external shadow bake is triggered by any of the three
\* operators, every mesh of the scene other than the target and the shadow
\* plane is hidden from the render, and the target and the plane are shown.
AtBake == pc \in {"x_bake", "c_bake", "b_bake"}
C14_IsolatedAtBake ==
    AtBake =>
        /\ \A k \in DOMAIN objs :
             (objs[k].type = "MESH" /\ k # mesh /\ k # plane.id) => objs[k].hide_render
        /\ ~objs[mesh].hide_render
        /\ ~objs[plane.id].hide_render

\* C15: the render-visibility changes are temporary: once a single-object
\* export or a collection export has finished, every mesh that was in the
\* scene when the operator started has the hide_render flag it had then.
C15_VisibilityRestored ==
    (pc = "idle" /\ op \in {"export", "coll"} /\ result = "FINISHED")
        => \A k \in DOMAIN objs0 :
             objs0[k].type = "MESH"
                 => /\ objs[k].type = "MESH"
                    /\ objs[k].hide_render = objs0[k].hide_render

====
